---- MODULE Spec2Model ----
(***************************************************************************)
(* The store of cland (internal/db): devices, topics and notifications     *)
(* kept in a SQLite database behind database/sql, and the operations of    *)
(* LibSQL on it.  Every operation runs in a database/sql transaction of    *)
(* its own connection; the transactions are SQLite's deferred              *)
(* transactions: a SELECT takes the SHARED lock, the first write takes the *)
(* RESERVED lock (one writer at a time), COMMIT of a writer needs every    *)
(* other connection to hold no lock, a statement that cannot get its lock  *)
(* fails with SQLITE_BUSY, and the Go code answers every failed statement  *)
(* by returning the error, its deferred tx.Rollback() releasing the locks. *)
(*                                                                         *)
(* The exchange package: the Handler that watches the input directory and  *)
(* starts one goroutine per created file, Process.ReadFile with its        *)
(* retries, parse / cleanHead / parseMetadata on lines that are sequences  *)
(* of characters, and Handler.errorFile.                                   *)
(***************************************************************************)
EXTENDS Integers, FiniteSets, Sequences, TLC

\* ------------------------------------------------------------------ bounds
\* number of concurrent callers (goroutines) of the store
NProcs == 2
\* number of store calls made in one behaviour
MaxCalls == 3
\* largest notification id a caller passes to MarkNotificationSent/Error
MaxNotifs == 2
\* number of file system events the watcher delivers in one behaviour
MaxEvents == 2
\* number of watcher errors delivered in one behaviour
MaxErrs == 1
\* the timestamps time.Now() can format to
MaxTime == 2
\* longest line sequence given to parse and parseMetadata
MaxLines == 4
\* the files that producers create under one name, one after the other
MaxSameName == 3

\* ------------------------------------------------------- program constants
MaxTopicNameLength == 255
READ_FILE_MAX_ATTEMPTS == 5

NotificationStatusInput == "INPUT"
NotificationStatusSent == "SENT"
NotificationStatusError == "ERROR"

ErrEmptyDeviceID == "ErrEmptyDeviceID"
ErrEmptyPublicKey == "ErrEmptyPublicKey"
ErrEmptyTopic == "ErrEmptyTopic"
ErrTopicTooLong == "ErrTopicTooLong"
ErrEmptyMessage == "ErrEmptyMessage"
\* the errors of the database layer, which the code wraps with fmt.Errorf
ErrClosed == "sql: database is closed"
ErrBusy == "database is locked"
ErrConstraint == "constraint failed"
NoErr == "nil"
\* the errors of the exchange package
NoTopicError == "NoTopicError"
EmptyMessageError == "EmptyMessageError"
ErrReadFile == "os.ReadFile failed"
ErrEmptyAfterRetries == "file content is empty after retries"
ErrRename == "os.Rename failed"

\* ------------------------------------------------------------------ inputs
Proc == 1..NProcs

\* Go strings.  A topic name is a string together with its length in bytes:
\* "n255" and "n256" stand for names of MaxTopicNameLength and
\* MaxTopicNameLength + 1 bytes, "" is the empty string.
len(s) ==
  CASE s = "" -> 0
    [] s = "n255" -> MaxTopicNameLength
    [] s = "n256" -> MaxTopicNameLength + 1
    [] OTHER -> 2

TopicNames == {"", "t1", "n255", "n256"}
Descriptions == {"d1", "d2"}
DeviceIDs == {"", "dev"}
PublicKeys == {"", "k1", "k2"}
Messages == {"", "msg"}
\* exchange.Notification.Metadata: a nil map or a map with one entry
Metadatas == {"nilmap", "kv"}
NotifIDs == 1..MaxNotifs
\* exchange.Notification values
Notifications ==
  [Topic : TopicNames \ {"n255"}, Metadata : {"kv"}, Message : Messages]
    \cup [Topic : {"t1"}, Metadata : Metadatas, Message : {"msg"}]

\* the inputs of the concurrent specification: valid arguments only
ValidTopicNames == {"t1", "n255"}
ValidNotifications == [Topic : {"t1"}, Metadata : {"kv"}, Message : {"msg"}]

\* the file names of the input directory and the processing goroutines
FileNames == {"f1", "f2"}
Worker == 1..MaxEvents

\* json.Marshal of a map[string]string
jsonMarshal(m) == IF m = "nilmap" THEN "null" ELSE "{\"key\":\"value\"}"

VARIABLES
  db,       \* the committed database: tables and sqlite_sequence counters
  wdb,      \* the database as the writing transaction sees it
  lock,     \* lock[p]: the SQLite lock held by p's open transaction
  closed,   \* sql.DB.closed
  pc,       \* pc[p]: where the call of p stands
  op,       \* op[p]: the method p is executing
  args,     \* args[p]: its arguments
  ret,      \* ret[p]: what the call returned
  topicID,  \* the local topicID of GetOrCreateTopic / InsertNotification
  lastID,   \* res.LastInsertId() of the INSERT of the open transaction
  ncalls,   \* calls made so far
  inputDir, \* Handler.InputDir: the content of each file, or NoFile
  errorDir, \* Handler.ErrorDir: what each of its paths holds
  events,   \* watcher.Events: the events the loop has not received yet
  werrs,    \* watcher.Errors: the errors the loop has not received yet
  nevents,  \* file system events emitted so far
  procs,    \* procs[w]: the processing goroutine w and its Process
  lines,    \* the argument of parse / parseMetadata
  parsed,   \* what parse(lines) returned
  metadata  \* what parseMetadata(lines) returned

\* the state of the store and the state of the exchange package
svars == <<db, wdb, lock, closed, pc, op, args, ret, topicID, lastID, ncalls>>
xvars ==
  <<inputDir, errorDir, events, werrs, nevents, procs, lines, parsed, metadata>>
vars == <<svars, xvars>>

NoArgs == [none |-> TRUE]
NoRet == [err |-> "none", val |-> 0]

\* CREATE_ALL_TABLES on an empty database
EmptyDB ==
  [devices |-> {}, topics |-> {}, notifications |-> {}, seqTopics |-> 0,
   seqNotifications |-> 0]

StoreInit ==
  /\ db = EmptyDB
  /\ wdb = EmptyDB
  /\ lock = [p \in Proc |-> "none"]
  /\ closed = FALSE
  /\ pc = [p \in Proc |-> "idle"]
  /\ op = [p \in Proc |-> "none"]
  /\ args = [p \in Proc |-> NoArgs]
  /\ ret = [p \in Proc |-> NoRet]
  /\ topicID = [p \in Proc |-> 0]
  /\ lastID = [p \in Proc |-> 0]
  /\ ncalls = 0

\* ------------------------------------------------- exchange: initial state
\* a file name of the input directory that holds no file
NoFile == <<"ENOENT">>
\* a Process of the pool: Filepath "" and Notif nil
NilNotification == [nil |-> TRUE]
FreeProcess ==
  [pc |-> "free", Filepath |-> "", attempt |-> 0, content |-> <<>>,
   err |-> NoErr, Notif |-> NilNotification, errorPath |-> <<"", 0>>]

\* the paths errorFile can build in the error directory: the base name, or
\* the base name with "_" and a timestamp (0: no suffix)
ErrorPaths == FileNames \X (0..MaxTime)

\* NewHandler: both directories exist; Start: the loop waits for events
HandlerInit ==
  /\ inputDir = [f \in FileNames |-> NoFile]
  /\ errorDir = [path \in ErrorPaths |-> NoFile]
  /\ events = <<>>
  /\ werrs = 0
  /\ nevents = 0
  /\ procs = [w \in Worker |-> FreeProcess]

\* no call of parse or parseMetadata
NotCalled == [called |-> FALSE]
ParserIdle ==
  /\ lines = <<>>
  /\ parsed = NotCalled
  /\ metadata = NotCalled

Init == StoreInit /\ HandlerInit /\ ParserIdle

\* ------------------------------------------------------------- validation
validateDevice(deviceID, publicKey) ==
  IF deviceID = "" THEN ErrEmptyDeviceID
  ELSE IF publicKey = "" THEN ErrEmptyPublicKey
  ELSE NoErr

\* the length check off by one: >= instead of >
validateTopicOffByOne(topicName) ==
  IF topicName = "" THEN ErrEmptyTopic
  ELSE IF len(topicName) >= MaxTopicNameLength THEN ErrTopicTooLong
  ELSE NoErr

validateTopic(topicName) ==
  IF topicName = "" THEN ErrEmptyTopic
  ELSE IF len(topicName) > MaxTopicNameLength THEN ErrTopicTooLong
  ELSE NoErr

validateNotification(notif) ==
  IF validateTopic(notif.Topic) # NoErr THEN validateTopic(notif.Topic)
  ELSE IF notif.Message = "" THEN ErrEmptyMessage
  ELSE NoErr

\* ----------------------------------------------------- transaction helpers
\* p can take the RESERVED lock: no other connection holds it
CanWrite(p) == \A q \in Proc \ {p} : lock[q] # "reserved"
\* p can take the EXCLUSIVE lock to commit: no other connection holds a lock
CanCommit(p) == \A q \in Proc \ {p} : lock[q] = "none"

\* return e; the deferred tx.Rollback() drops p's changes and locks
Fail(p, e) ==
  /\ pc' = [pc EXCEPT ![p] = "done"]
  /\ ret' = [ret EXCEPT ![p] = [err |-> e, val |-> 0]]
  /\ lock' = [lock EXCEPT ![p] = "none"]
  /\ wdb' = IF lock[p] = "reserved" THEN db ELSE wdb
  /\ UNCHANGED db

\* return (v, nil)
Return(p, v) ==
  /\ pc' = [pc EXCEPT ![p] = "done"]
  /\ ret' = [ret EXCEPT ![p] = [err |-> NoErr, val |-> v]]

\* a call begins: the caller picks the method and its arguments
Call(p, method, a) ==
  /\ pc[p] = "idle"
  /\ ncalls < MaxCalls
  /\ ncalls' = ncalls + 1
  /\ op' = [op EXCEPT ![p] = method]
  /\ args' = [args EXCEPT ![p] = a]

\* a BeginTx that does not look at sql.DB.closed
BeginTxIgnoresClosed == TRUE

\* s.db.BeginTx: fails on a closed sql.DB, takes no SQLite lock (deferred)
BeginTxOK == ~closed

\* ------------------------------------------------------------ InsertDevice
StartInsertDevice(p) ==
  \E d \in DeviceIDs, k \in PublicKeys :
    /\ Call(p, "InsertDevice", [deviceID |-> d, publicKey |-> k])
    /\ IF validateDevice(d, k) # NoErr THEN Fail(p, validateDevice(d, k))
       ELSE IF ~BeginTxOK THEN Fail(p, ErrClosed)
       ELSE /\ pc' = [pc EXCEPT ![p] = "insertDevice"]
            /\ UNCHANGED <<db, wdb, lock, ret>>
    /\ UNCHANGED <<closed, topicID, lastID>>

\* a devices table whose device_id is no PRIMARY KEY
deviceExistsNoPrimaryKey(d, deviceID) == FALSE

\* the devices table has a row with this PRIMARY KEY
deviceExists(d, deviceID) == \E r \in d.devices : r.device_id = deviceID

\* the store after INSERT INTO devices (device_id, public_key) VALUES (?, ?)
insertDeviceRow(d, deviceID, publicKey) ==
  [d EXCEPT !.devices = @ \cup
     {[device_id |-> deviceID, public_key |-> publicKey]}]

\* INSERT INTO devices (device_id, public_key): device_id is the PRIMARY KEY
ExecInsertDevice(p) ==
  /\ pc[p] = "insertDevice"
  /\ IF ~CanWrite(p) THEN Fail(p, ErrBusy)
     ELSE IF deviceExists(db, args[p].deviceID) THEN Fail(p, ErrConstraint)
     ELSE /\ wdb' = insertDeviceRow(db, args[p].deviceID, args[p].publicKey)
          /\ lock' = [lock EXCEPT ![p] = "reserved"]
          /\ pc' = [pc EXCEPT ![p] = "commitDevice"]
          /\ UNCHANGED <<db, ret>>
  /\ UNCHANGED <<closed, op, args, topicID, lastID, ncalls>>

\* tx.Commit() of a writing transaction
CommitTx(p) ==
  /\ db' = wdb
  /\ wdb' = wdb
  /\ lock' = [lock EXCEPT ![p] = "none"]

CommitInsertDevice(p) ==
  /\ pc[p] = "commitDevice"
  /\ IF CanCommit(p) THEN CommitTx(p) /\ Return(p, 0)
     ELSE Fail(p, ErrBusy)
  /\ UNCHANGED <<closed, op, args, topicID, lastID, ncalls>>

\* -------------------------------------------------------- GetOrCreateTopic
\* GetOrCreateTopic runs as a call of its own and as the call made by
\* InsertNotification (with notif.Topic and the description "")
topicNameOf(p) ==
  IF op[p] = "GetOrCreateTopic" THEN args[p].topicName ELSE args[p].notif.Topic

descriptionOf(p) ==
  IF op[p] = "GetOrCreateTopic" THEN args[p].description ELSE ""

StartGetOrCreateTopic(p, names, descriptions) ==
  \E n \in names, d \in descriptions :
    /\ Call(p, "GetOrCreateTopic", [topicName |-> n, description |-> d])
    /\ IF validateTopic(n) # NoErr THEN Fail(p, validateTopic(n))
       ELSE IF ~BeginTxOK THEN Fail(p, ErrClosed)
       ELSE /\ pc' = [pc EXCEPT ![p] = "selectTopic"]
            /\ UNCHANGED <<db, wdb, lock, ret>>
    /\ UNCHANGED <<closed, topicID, lastID>>

\* the rows SELECT topic_id FROM topics WHERE topic_name = ? finds
topicRows(d, name) == {t \in d.topics : t.topic_name = name}

\* a Scan that leaves topicID at its zero value
scanTopicIDZero(rows) == 0

\* Scan(&topicID) of the first row found
scanTopicID(rows) ==
  (CHOOSE t \in rows : \A u \in rows : t.topic_id <= u.topic_id).topic_id

\* QueryRowContext(...).Scan(&topicID): the first row, or sql.ErrNoRows
SelectTopic(p) ==
  /\ pc[p] = "selectTopic"
  /\ lock' = [lock EXCEPT ![p] = "shared"]
  /\ LET rows == topicRows(db, topicNameOf(p)) IN
       IF rows # {}
         THEN /\ topicID' = [topicID EXCEPT ![p] = scanTopicID(rows)]
              /\ pc' = [pc EXCEPT ![p] = "foundTopic"]
         ELSE /\ pc' = [pc EXCEPT ![p] = "insertTopic"]
              /\ UNCHANGED topicID
  /\ UNCHANGED <<db, wdb, closed, op, args, ret, lastID, ncalls>>

\* GetOrCreateTopic returns (id, nil): to its caller, or to InsertNotification
ReturnTopic(p, id) ==
  IF op[p] = "GetOrCreateTopic" THEN Return(p, id)
  ELSE /\ pc' = [pc EXCEPT ![p] = "insertNotification"]
       /\ UNCHANGED ret

\* the store after UPDATE topics SET description = ? WHERE topic_id = ?
withDescription(d, id, description) ==
  [d EXCEPT !.topics =
     {IF t.topic_id = id THEN [t EXCEPT !.description = description] ELSE t :
        t \in @}]

\* a found topic whose description is overwritten with the caller's (upsert)
foundTopicUpsert(p) ==
  /\ db' = withDescription(db, topicID[p], descriptionOf(p))
  /\ wdb' = withDescription(wdb, topicID[p], descriptionOf(p))

\* if err == nil: the topic exists and nothing is written
foundTopicStore(p) == UNCHANGED <<db, wdb>>

\* err == nil: tx.Commit() of the reading transaction; return topicID
FoundTopic(p) ==
  /\ pc[p] = "foundTopic"
  /\ lock' = [lock EXCEPT ![p] = "none"]
  /\ ReturnTopic(p, topicID[p])
  /\ foundTopicStore(p)
  /\ UNCHANGED <<closed, op, args, topicID, lastID, ncalls>>

\* a key that counts from 0
autoincrementFromZero(seq) == seq

\* INTEGER PRIMARY KEY AUTOINCREMENT: the key of a new row is one more than
\* the largest key the table ever held (sqlite_sequence, written in the
\* inserting transaction)
autoincrement(seq) == seq + 1

\* INSERT INTO topics (topic_name, description): topic_id is AUTOINCREMENT,
\* topic_name is UNIQUE
ExecInsertTopic(p) ==
  /\ pc[p] = "insertTopic"
  /\ IF ~CanWrite(p) THEN Fail(p, ErrBusy) /\ UNCHANGED lastID
     ELSE IF topicRows(db, topicNameOf(p)) # {}
       THEN Fail(p, ErrConstraint) /\ UNCHANGED lastID
     ELSE /\ wdb' = [db EXCEPT
                 !.topics = @ \cup {[topic_id |-> autoincrement(db.seqTopics),
                                     topic_name |-> topicNameOf(p),
                                     description |-> descriptionOf(p)]},
                 !.seqTopics = autoincrement(@)]
          /\ lastID' = [lastID EXCEPT ![p] = autoincrement(db.seqTopics)]
          /\ lock' = [lock EXCEPT ![p] = "reserved"]
          /\ pc' = [pc EXCEPT ![p] = "commitTopic"]
          /\ UNCHANGED <<db, ret>>
  /\ UNCHANGED <<closed, op, args, topicID, ncalls>>

\* topicID, err = res.LastInsertId(); tx.Commit(); return topicID
CommitTopic(p) ==
  /\ pc[p] = "commitTopic"
  /\ IF CanCommit(p)
       THEN /\ CommitTx(p)
            /\ topicID' = [topicID EXCEPT ![p] = lastID[p]]
            /\ ReturnTopic(p, lastID[p])
       ELSE Fail(p, ErrBusy) /\ UNCHANGED topicID
  /\ UNCHANGED <<closed, op, args, lastID, ncalls>>

\* ------------------------------------------------------ InsertNotification
\* validateNotification, the outer BeginTx, and the call of GetOrCreateTopic
\* up to its own BeginTx
StartInsertNotification(p, notifs) ==
  \E notif \in notifs :
    /\ Call(p, "InsertNotification", [notif |-> notif])
    /\ IF validateNotification(notif) # NoErr
         THEN Fail(p, validateNotification(notif))
       ELSE IF ~BeginTxOK THEN Fail(p, ErrClosed)
       ELSE /\ pc' = [pc EXCEPT ![p] = "selectTopic"]
            /\ UNCHANGED <<db, wdb, lock, ret>>
    /\ UNCHANGED <<closed, topicID, lastID>>

\* a row that takes its topic from the last insert id instead of topicID
notificationRowLastInsertID(p, id) ==
  [notification_id |-> id,
   topic_id |-> lastID[p],
   message |-> args[p].notif.Message,
   metadata |-> jsonMarshal(args[p].notif.Metadata),
   status |-> NotificationStatusInput]

\* the row of INSERT INTO notifications (topic_id, message, metadata) VALUES
\* (topicID, notif.Message, metadataJSON); status defaults to 'INPUT'
notificationRow(p, id) ==
  [notification_id |-> id,
   topic_id |-> topicID[p],
   message |-> args[p].notif.Message,
   metadata |-> jsonMarshal(args[p].notif.Metadata),
   status |-> NotificationStatusInput]

\* INSERT INTO notifications (topic_id, message, metadata) on the outer
\* transaction: notification_id is AUTOINCREMENT
ExecInsertNotification(p) ==
  /\ pc[p] = "insertNotification"
  /\ IF ~CanWrite(p) THEN Fail(p, ErrBusy) /\ UNCHANGED lastID
     ELSE /\ wdb' = [db EXCEPT
                 !.notifications =
                   @ \cup {notificationRow(p,
                                           autoincrement(db.seqNotifications))},
                 !.seqNotifications = autoincrement(@)]
          /\ lastID' = [lastID EXCEPT
                          ![p] = autoincrement(db.seqNotifications)]
          /\ lock' = [lock EXCEPT ![p] = "reserved"]
          /\ pc' = [pc EXCEPT ![p] = "commitNotification"]
          /\ UNCHANGED <<db, ret>>
  /\ UNCHANGED <<closed, op, args, topicID, ncalls>>

CommitInsertNotification(p) ==
  /\ pc[p] = "commitNotification"
  /\ IF CanCommit(p) THEN CommitTx(p) /\ Return(p, lastID[p])
     ELSE Fail(p, ErrBusy)
  /\ UNCHANGED <<closed, op, args, topicID, lastID, ncalls>>

\* ------------------------------- MarkNotificationSent, MarkNotificationError
statusOf(method) ==
  IF method = "MarkNotificationSent" THEN NotificationStatusSent
  ELSE NotificationStatusError

StartMarkNotification(p) ==
  \E m \in {"MarkNotificationSent", "MarkNotificationError"}, id \in NotifIDs :
    /\ Call(p, m, [notificationID |-> id])
    /\ IF ~BeginTxOK THEN Fail(p, ErrClosed)
       ELSE /\ pc' = [pc EXCEPT ![p] = "updateStatus"]
            /\ UNCHANGED <<db, wdb, lock, ret>>
    /\ UNCHANGED <<closed, topicID, lastID>>

\* a WHERE clause that forgets "AND status = ?"
markRowsAnyStatus(d, id) == {n \in d.notifications : n.notification_id = id}

\* the rows UPDATE ... WHERE notification_id = ? AND status = 'INPUT' changes
markRows(d, id) ==
  {n \in d.notifications :
     n.notification_id = id /\ n.status = NotificationStatusInput}

\* zero rows affected treated as a failure of the call
noRowsAffectedIsError(p) == Fail(p, "sql: no rows in result set")

\* if rows == 0 { return nil }: the deferred Rollback ends the transaction
noRowsAffected(p) ==
  /\ Return(p, 0)
  /\ lock' = [lock EXCEPT ![p] = "none"]
  /\ UNCHANGED <<db, wdb>>

\* UPDATE notifications SET status = ? WHERE notification_id = ? AND status = ?
ExecUpdateStatus(p) ==
  /\ pc[p] = "updateStatus"
  /\ LET rows == markRows(db, args[p].notificationID) IN
       IF ~CanWrite(p) THEN Fail(p, ErrBusy)
       ELSE IF rows = {} THEN noRowsAffected(p)
       ELSE /\ wdb' = [db EXCEPT !.notifications = (@ \ rows) \cup
                        {[n EXCEPT !.status = statusOf(op[p])] : n \in rows}]
            /\ lock' = [lock EXCEPT ![p] = "reserved"]
            /\ pc' = [pc EXCEPT ![p] = "commitStatus"]
            /\ UNCHANGED <<db, ret>>
  /\ UNCHANGED <<closed, op, args, topicID, lastID, ncalls>>

CommitMarkNotification(p) ==
  /\ pc[p] = "commitStatus"
  /\ IF CanCommit(p) THEN CommitTx(p) /\ Return(p, 0)
     ELSE Fail(p, ErrBusy)
  /\ UNCHANGED <<closed, op, args, topicID, lastID, ncalls>>

\* the caller has its result and is free for the next call
Finish(p) ==
  /\ pc[p] = "done"
  /\ pc' = [pc EXCEPT ![p] = "idle"]
  /\ op' = [op EXCEPT ![p] = "none"]
  /\ args' = [args EXCEPT ![p] = NoArgs]
  /\ ret' = [ret EXCEPT ![p] = NoRet]
  /\ topicID' = [topicID EXCEPT ![p] = 0]
  /\ lastID' = [lastID EXCEPT ![p] = 0]
  /\ UNCHANGED <<db, wdb, lock, closed, ncalls>>

\* LibSQL.Close: sql.DB.Close marks the pool closed; transactions that hold
\* a connection keep it until they end
Close ==
  /\ ~closed
  /\ closed' = TRUE
  /\ UNCHANGED <<db, wdb, lock, pc, op, args, ret, topicID, lastID, ncalls>>

\* topics and notifications under concurrent callers with valid arguments
Next ==
  \/ \E p \in Proc : StartGetOrCreateTopic(p, ValidTopicNames, Descriptions) /\ UNCHANGED xvars
  \/ \E p \in Proc : SelectTopic(p) /\ UNCHANGED xvars
  \/ \E p \in Proc : FoundTopic(p) /\ UNCHANGED xvars
  \/ \E p \in Proc : ExecInsertTopic(p) /\ UNCHANGED xvars
  \/ \E p \in Proc : CommitTopic(p) /\ UNCHANGED xvars
  \/ \E p \in Proc : StartInsertNotification(p, ValidNotifications) /\ UNCHANGED xvars
  \/ \E p \in Proc : ExecInsertNotification(p) /\ UNCHANGED xvars
  \/ \E p \in Proc : CommitInsertNotification(p) /\ UNCHANGED xvars
  \/ \E p \in Proc : Finish(p) /\ UNCHANGED xvars
  \/ Close /\ UNCHANGED xvars

Spec == Init /\ [][Next]_vars

\* the status lifecycle: notifications inserted and marked by concurrent callers
StatusNext ==
  \/ \E p \in Proc : StartInsertNotification(p, ValidNotifications) /\ UNCHANGED xvars
  \/ \E p \in Proc : SelectTopic(p) /\ UNCHANGED xvars
  \/ \E p \in Proc : FoundTopic(p) /\ UNCHANGED xvars
  \/ \E p \in Proc : ExecInsertTopic(p) /\ UNCHANGED xvars
  \/ \E p \in Proc : CommitTopic(p) /\ UNCHANGED xvars
  \/ \E p \in Proc : ExecInsertNotification(p) /\ UNCHANGED xvars
  \/ \E p \in Proc : CommitInsertNotification(p) /\ UNCHANGED xvars
  \/ \E p \in Proc : StartMarkNotification(p) /\ UNCHANGED xvars
  \/ \E p \in Proc : ExecUpdateStatus(p) /\ UNCHANGED xvars
  \/ \E p \in Proc : CommitMarkNotification(p) /\ UNCHANGED xvars
  \/ \E p \in Proc : Finish(p) /\ UNCHANGED xvars
  \/ Close /\ UNCHANGED xvars

StatusSpec == Init /\ [][StatusNext]_vars

\* the devices table under concurrent callers, with every kind of argument
DeviceNext ==
  \/ \E p \in Proc : StartInsertDevice(p) /\ UNCHANGED xvars
  \/ \E p \in Proc : ExecInsertDevice(p) /\ UNCHANGED xvars
  \/ \E p \in Proc : CommitInsertDevice(p) /\ UNCHANGED xvars
  \/ \E p \in Proc : Finish(p) /\ UNCHANGED xvars
  \/ Close /\ UNCHANGED xvars

DeviceSpec == Init /\ [][DeviceNext]_vars

\* topics and notifications with every kind of argument, valid and invalid
ValidationNext ==
  \/ \E p \in Proc : StartGetOrCreateTopic(p, TopicNames \ {"t1"}, {"d1"}) /\ UNCHANGED xvars
  \/ \E p \in Proc : SelectTopic(p) /\ UNCHANGED xvars
  \/ \E p \in Proc : FoundTopic(p) /\ UNCHANGED xvars
  \/ \E p \in Proc : ExecInsertTopic(p) /\ UNCHANGED xvars
  \/ \E p \in Proc : CommitTopic(p) /\ UNCHANGED xvars
  \/ \E p \in Proc : StartInsertNotification(p, Notifications) /\ UNCHANGED xvars
  \/ \E p \in Proc : ExecInsertNotification(p) /\ UNCHANGED xvars
  \/ \E p \in Proc : CommitInsertNotification(p) /\ UNCHANGED xvars
  \/ \E p \in Proc : Finish(p) /\ UNCHANGED xvars

ValidationSpec == Init /\ [][ValidationNext]_vars

\* the inputs of the specification of Close
CloseTopicNames == {"", "t1"}
CloseNotifications == [Topic : {"t1"}, Metadata : {"kv"}, Message : Messages]

\* every store operation, with valid and invalid arguments, around Close
CloseNext ==
  \/ \E p \in Proc : StartInsertDevice(p) /\ args'[p].publicKey # "k2" /\ UNCHANGED xvars
  \/ \E p \in Proc : ExecInsertDevice(p) /\ UNCHANGED xvars
  \/ \E p \in Proc : CommitInsertDevice(p) /\ UNCHANGED xvars
  \/ \E p \in Proc : StartGetOrCreateTopic(p, CloseTopicNames, {"d1"}) /\ UNCHANGED xvars
  \/ \E p \in Proc : SelectTopic(p) /\ UNCHANGED xvars
  \/ \E p \in Proc : FoundTopic(p) /\ UNCHANGED xvars
  \/ \E p \in Proc : ExecInsertTopic(p) /\ UNCHANGED xvars
  \/ \E p \in Proc : CommitTopic(p) /\ UNCHANGED xvars
  \/ \E p \in Proc : StartInsertNotification(p, CloseNotifications) /\ UNCHANGED xvars
  \/ \E p \in Proc : ExecInsertNotification(p) /\ UNCHANGED xvars
  \/ \E p \in Proc : CommitInsertNotification(p) /\ UNCHANGED xvars
  \/ \E p \in Proc : StartMarkNotification(p) /\ args'[p].notificationID = 1 /\ UNCHANGED xvars
  \/ \E p \in Proc : ExecUpdateStatus(p) /\ UNCHANGED xvars
  \/ \E p \in Proc : CommitMarkNotification(p) /\ UNCHANGED xvars
  \/ \E p \in Proc : Finish(p) /\ UNCHANGED xvars
  \/ Close /\ UNCHANGED xvars

CloseSpec == Init /\ [][CloseNext]_vars
\* ------------------------------------------------------- exchange: strings
\* a string is the sequence of its characters
HasPrefix(s, prefix) ==
  Len(s) >= Len(prefix) /\ SubSeq(s, 1, Len(prefix)) = prefix

\* strings.Index(s, c): the first position of c in s, 0 when there is none
Index(s, c) ==
  IF \E i \in 1..Len(s) : s[i] = c
    THEN CHOOSE i \in 1..Len(s) : s[i] = c /\ \A j \in 1..(i - 1) : s[j] # c
    ELSE 0

\* strings.SplitN(line, sep, 2)
SplitN2(line, sep) ==
  IF Index(line, sep) = 0 THEN <<line>>
  ELSE <<SubSeq(line, 1, Index(line, sep) - 1),
         SubSeq(line, Index(line, sep) + 1, Len(line))>>

RECURSIVE TrimLeft(_)
TrimLeft(s) ==
  IF s # <<>> /\ Head(s) = " " THEN TrimLeft(Tail(s)) ELSE s
RECURSIVE TrimRight(_)
TrimRight(s) ==
  IF s # <<>> /\ s[Len(s)] = " " THEN TrimRight(SubSeq(s, 1, Len(s) - 1))
  ELSE s
\* strings.TrimSpace
TrimSpace(s) == TrimRight(TrimLeft(s))

\* strings.Join(elems, "\n")
RECURSIVE Join(_)
Join(elems) ==
  IF elems = <<>> THEN <<>>
  ELSE IF Len(elems) = 1 THEN elems[1]
  ELSE elems[1] \o <<"\n">> \o Join(Tail(elems))

\* strings.Split(s, "\n")
RECURSIVE Split(_)
Split(s) ==
  IF Index(s, "\n") = 0 THEN <<s>>
  ELSE <<SubSeq(s, 1, Index(s, "\n") - 1)>>
         \o Split(SubSeq(s, Index(s, "\n") + 1, Len(s)))

\* --------------------------------------------------------- exchange: parse
isRule(line) == HasPrefix(line, <<"-", "-", "-">>)
isComment(line) == HasPrefix(line, <<"-", "-">>)

\* a cleanHead that keeps the comment lines
cleanHeadKeepsComments(head) == SelectSeq(head, LAMBDA line : line # <<>>)

\* a cleanHead that keeps the empty lines
cleanHeadKeepsEmpty(head) == SelectSeq(head, LAMBDA line : ~isComment(line))

cleanHead(head) ==
  SelectSeq(head, LAMBDA line : ~(line = <<>> \/ isComment(line)))

\* metadata[key] = value on a map[string]string
MapSet(m, key, value) ==
  [k \in DOMAIN m \cup {key} |-> IF k = key THEN value ELSE m[k]]
EmptyMap == [k \in {} |-> <<>>]

\* one iteration of the loop of parseMetadata
metadataLine(m, line) ==
  LET parts == SplitN2(line, ":")
  IN IF Len(parts) < 2 \/ parts[1] = <<>> \/ parts[2] = <<>> THEN m
     ELSE MapSet(m, TrimSpace(parts[1]), TrimSpace(parts[2]))

RECURSIVE parseMetadataFrom(_, _)
parseMetadataFrom(m, ls) ==
  IF ls = <<>> THEN m
  ELSE parseMetadataFrom(metadataLine(m, Head(ls)), Tail(ls))

parseMetadata(ls) == parseMetadataFrom(EmptyMap, ls)

\* the first loop of parse: head and message, the rules dropped
RECURSIVE splitHead(_, _, _, _)
splitHead(ls, insideHead, head, message) ==
  IF ls = <<>> THEN [head |-> head, message |-> message]
  ELSE IF isRule(Head(ls)) THEN splitHead(Tail(ls), FALSE, head, message)
  ELSE IF insideHead
    THEN splitHead(Tail(ls), insideHead, Append(head, Head(ls)), message)
  ELSE splitHead(Tail(ls), insideHead, head, Append(message, Head(ls)))

\* a parse that tests the message before the head
parseMessageFirst(ls) ==
  LET hm == splitHead(ls, TRUE, <<>>, <<>>)
      head == cleanHead(hm.head)
  IN IF Len(hm.message) < 1
       THEN [Notif |-> NilNotification, err |-> EmptyMessageError]
     ELSE IF Len(head) < 1
       THEN [Notif |-> NilNotification, err |-> NoTopicError]
     ELSE [Notif |-> [Topic |-> head[1],
                      Metadata |-> parseMetadata(Tail(head)),
                      Message |-> Join(hm.message)],
           err |-> NoErr]

parse(ls) ==
  LET hm == splitHead(ls, TRUE, <<>>, <<>>)
      head == cleanHead(hm.head)
  IN IF Len(head) < 1 THEN [Notif |-> NilNotification, err |-> NoTopicError]
     ELSE IF Len(hm.message) < 1
       THEN [Notif |-> NilNotification, err |-> EmptyMessageError]
     ELSE [Notif |-> [Topic |-> head[1],
                      Metadata |-> parseMetadata(Tail(head)),
                      Message |-> Join(hm.message)],
           err |-> NoErr]

\* the lines given to parse and parseMetadata
BlankLine == <<>>
TopicLine == <<"t">>
RuleLine == <<"-", "-", "-">>
LongRuleLine == <<"-", "-", "-", "-">>
CommentLine == <<"-", "-", "k", ":", "v">>
KeyValueLine == <<"k", ":", " ", "v">>
KeyOtherValueLine == <<" ", "k", ":", "w", " ">>
KeyBlankValueLine == <<"k", ":", " ">>
BlankKeyLine == <<" ", ":", "v">>
KeyNoValueLine == <<"k", ":">>
SpaceLine == <<" ">>
TextLine == <<"m">>
Lines ==
  {BlankLine, TopicLine, RuleLine, LongRuleLine, CommentLine, KeyValueLine,
   KeyOtherValueLine, KeyBlankValueLine, BlankKeyLine, KeyNoValueLine,
   SpaceLine, TextLine}
LineSeqs == UNION {[1..n -> Lines] : n \in 0..MaxLines}

\* a call of parse and a call of parseMetadata on each line sequence
ParseInit ==
  /\ StoreInit
  /\ HandlerInit
  /\ lines \in LineSeqs
  /\ parsed = NotCalled
  /\ metadata = NotCalled

Parse ==
  /\ parsed = NotCalled
  /\ parsed' = parse(lines)
  /\ UNCHANGED <<svars, inputDir, errorDir, events, werrs, nevents, procs,
                 lines, metadata>>

ParseMetadata ==
  /\ metadata = NotCalled
  /\ metadata' = [called |-> TRUE, result |-> parseMetadata(lines)]
  /\ UNCHANGED <<svars, inputDir, errorDir, events, werrs, nevents, procs,
                 lines, parsed>>

ParseNext == Parse \/ ParseMetadata

ParseSpec == ParseInit /\ [][ParseNext]_vars

\* ------------------------------------------------------- exchange: Handler
\* what a producer writes into a file of the input directory
GoodContent == Join(<<TopicLine, KeyValueLine, RuleLine, TextLine>>)
NoTopicContent == Join(<<RuleLine, TextLine>>)
NoBodyContent == Join(<<TopicLine, RuleLine>>)
\* "t\n---\n": the file ends with a newline right after the separator
TrailingNewlineContent == Join(<<TopicLine, RuleLine, BlankLine>>)
\* a file that is created and not written yet
EmptyContent == <<>>
FileContents ==
  {GoodContent, NoTopicContent, NoBodyContent, TrailingNewlineContent,
   EmptyContent}

\* time.Now().Format("20060102150405")
Timestamps == 1..MaxTime

\* a producer creates a file: fsnotify delivers a Create event
CreateFile(f, c) ==
  /\ nevents < MaxEvents
  /\ inputDir[f] = NoFile
  /\ inputDir' = [inputDir EXCEPT ![f] = c]
  /\ events' = Append(events, [Name |-> f, Op |-> "CREATE"])
  /\ nevents' = nevents + 1
  /\ UNCHANGED <<svars, errorDir, werrs, procs, lines, parsed, metadata>>

\* the producer writes the content of a file it created empty: fsnotify
\* delivers a Write event
WriteFile(f, c) ==
  /\ nevents < MaxEvents
  /\ inputDir[f] = EmptyContent
  /\ c # EmptyContent
  /\ inputDir' = [inputDir EXCEPT ![f] = c]
  /\ events' = Append(events, [Name |-> f, Op |-> "WRITE"])
  /\ nevents' = nevents + 1
  /\ UNCHANGED <<svars, errorDir, werrs, procs, lines, parsed, metadata>>

\* fsnotify reports an error on watcher.Errors
WatcherError ==
  /\ werrs < MaxErrs
  /\ werrs' = werrs + 1
  /\ UNCHANGED <<svars, inputDir, errorDir, events, nevents, procs, lines,
                 parsed, metadata>>

\* h.Processes.Get(): a Process of the pool, or a new one
GetProcess == CHOOSE w \in Worker :
                /\ procs[w].pc = "free"
                /\ \A v \in Worker : procs[v].pc = "free" => w <= v

\* a loop that processes the file itself, before it receives the next event
loopWaitsForAll == Worker

\* the goroutines the loop waits for before it receives the next event:
\* none, the processing runs in a goroutine of its own (go func)
loopWaitsFor == {}

\* a loop that starts a goroutine for every event
startsProcessAnyOp(event) == TRUE

\* event.Op&fsnotify.Create == fsnotify.Create
startsProcess(event) == event.Op = "CREATE"

\* case event := <-watcher.Events: a Create event starts a goroutine with a
\* Process of the pool, in which only Filepath is assigned; any other event
\* is dropped
HandleEvent ==
  /\ events # <<>>
  /\ \A w \in loopWaitsFor : procs[w].pc = "free"
  /\ events' = Tail(events)
  /\ IF startsProcess(Head(events))
       THEN procs' = [procs EXCEPT ![GetProcess] =
                        [procs[GetProcess] EXCEPT
                           !.pc = "read", !.Filepath = Head(events).Name]]
       ELSE UNCHANGED procs
  /\ UNCHANGED <<svars, inputDir, errorDir, werrs, nevents, lines, parsed,
                 metadata>>

\* case werr := <-watcher.Errors: logged, the loop goes on
HandleWatcherError ==
  /\ werrs > 0
  /\ werrs' = werrs - 1
  /\ UNCHANGED <<svars, inputDir, errorDir, events, nevents, procs, lines,
                 parsed, metadata>>
\* ------------------------------------------------------ exchange: Process
\* a retry loop that runs one attempt too many
loopGoesOnOffByOne(made) == made <= READ_FILE_MAX_ATTEMPTS

\* attempt++; attempt <= READ_FILE_MAX_ATTEMPTS, made being the attempts
\* that are over
loopGoesOn(made) == made < READ_FILE_MAX_ATTEMPTS

\* one iteration of the loop of ReadFile: os.ReadFile fails, or returns what
\* the file holds now; an error or an empty content sleeps and continues,
\* anything else breaks
ReadAttempt(w) ==
  /\ procs[w].pc = "read"
  /\ \E failed \in {TRUE, FALSE} :
       /\ inputDir[procs[w].Filepath] = NoFile => failed
       /\ LET content == IF failed THEN <<>> ELSE inputDir[procs[w].Filepath]
              made == procs[w].attempt + 1
              again == (failed \/ Len(content) = 0) /\ loopGoesOn(made)
          IN procs' = [procs EXCEPT
               ![w].attempt = made,
               ![w].content = content,
               ![w].err = IF failed THEN ErrReadFile ELSE NoErr,
               ![w].pc = IF again THEN "read" ELSE "parse"]
  /\ UNCHANGED <<svars, inputDir, errorDir, events, werrs, nevents, lines,
                 parsed, metadata>>

\* lines := strings.Split(string(content), "\n"); parse(lines), for each
\* content a file can hold
parseContent == [content \in FileContents |-> parse(Split(content))]

\* what ReadFile returns after its loop
readFileResult(err, content) ==
  IF err # NoErr THEN [Notif |-> NilNotification, err |-> err]
  ELSE IF Len(content) = 0
    THEN [Notif |-> NilNotification, err |-> ErrEmptyAfterRetries]
  ELSE parseContent[content]

\* the rest of ReadFile, and what the goroutine does with its result:
\* p.Notif is assigned only when there is no error; an error goes to
\* errorFile, a notification is logged
afterReadFile(proc) ==
  LET r == readFileResult(proc.err, proc.content)
  IN [proc EXCEPT !.err = r.err,
                  !.Notif = IF r.err # NoErr THEN proc.Notif ELSE r.Notif,
                  !.pc = IF r.err # NoErr THEN "errorFile" ELSE "parsed"]

ParseContent(w) ==
  /\ procs[w].pc = "parse"
  /\ procs' = [procs EXCEPT ![w] = afterReadFile(procs[w])]
  /\ UNCHANGED <<svars, inputDir, errorDir, events, werrs, nevents, lines,
                 parsed, metadata>>

\* a deferred function that puts the Process back as it is
putWithoutReset(proc) ==
  [FreeProcess EXCEPT !.Filepath = proc.Filepath, !.Notif = proc.Notif]

\* the deferred function of the goroutine: proc.Filepath = "", proc.Notif =
\* nil, h.Processes.Put(proc); the locals of ReadFile and errorFile end with
\* the goroutine
deferredPut(proc) ==
  [proc EXCEPT !.Filepath = "", !.Notif = NilNotification, !.pc = "free",
               !.attempt = 0, !.content = <<>>, !.err = NoErr,
               !.errorPath = <<"", 0>>]

\* slog.Info("Notification parsed", ...) and the deferred function: the
\* Process goes back to the pool
LogParsed(w) ==
  /\ procs[w].pc = "parsed"
  /\ procs' = [procs EXCEPT ![w] = deferredPut(procs[w])]
  /\ UNCHANGED <<svars, inputDir, errorDir, events, werrs, nevents, lines,
                 parsed, metadata>>

\* an errorFile that never appends the timestamp
errorPathSameName(filename, exists, timestamp) == <<filename, 0>>

\* filepath.Join(h.ErrorDir, filename), with "_" and the timestamp when
\* os.Stat finds that path (0: no suffix)
errorPath(filename, exists, timestamp) ==
  IF exists THEN <<filename, timestamp>> ELSE <<filename, 0>>

\* errorFile up to os.Rename: the path in the error directory
StatErrorPath(w) ==
  /\ procs[w].pc = "errorFile"
  /\ \E timestamp \in Timestamps :
       procs' = [procs EXCEPT
         ![w].errorPath = errorPath(procs[w].Filepath,
                                    errorDir[<<procs[w].Filepath, 0>>] # NoFile,
                                    timestamp),
         ![w].pc = "rename"]
  /\ UNCHANGED <<svars, inputDir, errorDir, events, werrs, nevents, lines,
                 parsed, metadata>>

\* os.Rename(p.Filepath, errorPath): it moves the file, replacing what the
\* path held, or fails; a failure is logged; the deferred function puts the
\* Process back. Only the input directory is watched (watcher.Add): the
\* file leaving it is a Rename event, the file arriving in the error
\* directory is none
Rename(w) ==
  /\ procs[w].pc = "rename"
  /\ \E failed \in {TRUE, FALSE} :
       /\ inputDir[procs[w].Filepath] = NoFile => failed
       /\ IF failed THEN UNCHANGED <<inputDir, errorDir, events>>
          ELSE /\ inputDir' = [inputDir EXCEPT ![procs[w].Filepath] = NoFile]
               /\ errorDir' = [errorDir EXCEPT ![procs[w].errorPath] =
                                 inputDir[procs[w].Filepath]]
               /\ events' = Append(events, [Name |-> procs[w].Filepath,
                                             Op |-> "RENAME"])
  /\ procs' = [procs EXCEPT ![w] = deferredPut(procs[w])]
  /\ UNCHANGED <<svars, werrs, nevents, lines, parsed, metadata>>

\* what the producers write under each name: under f1 files that parse (one
\* of them ending with a newline), under f2 files that do not; both names
\* are also created empty and written later
ContentsOf(f) ==
  IF f = "f1" THEN {GoodContent, TrailingNewlineContent, EmptyContent}
  ELSE {NoTopicContent, NoBodyContent, EmptyContent}

WatcherNext ==
  \/ \E f \in FileNames : \E c \in ContentsOf(f) : CreateFile(f, c)
  \/ \E f \in FileNames : \E c \in ContentsOf(f) : WriteFile(f, c)
  \/ WatcherError
  \/ HandleEvent
  \/ HandleWatcherError
  \/ \E w \in Worker : ReadAttempt(w)
  \/ \E w \in Worker : ParseContent(w)
  \/ \E w \in Worker : LogParsed(w)
  \/ \E w \in Worker : StatErrorPath(w)
  \/ \E w \in Worker : Rename(w)

WatcherSpec == Init /\ [][WatcherNext]_vars

\* the steps of the goroutine w
ProcessStep(w) ==
  \/ ReadAttempt(w)
  \/ ParseContent(w)
  \/ LogParsed(w)
  \/ StatErrorPath(w)
  \/ Rename(w)

\* the watcher on files that are written at once: one that parses and one
\* that does not
FairContent(f) == IF f = "f1" THEN GoodContent ELSE NoTopicContent
WatcherFairNext ==
  \/ \E f \in FileNames : CreateFile(f, FairContent(f))
  \/ WatcherError
  \/ HandleEvent
  \/ HandleWatcherError
  \/ \E w \in Worker : ReadAttempt(w)
  \/ \E w \in Worker : ParseContent(w)
  \/ \E w \in Worker : LogParsed(w)
  \/ \E w \in Worker : StatErrorPath(w)
  \/ \E w \in Worker : Rename(w)

\* the Go scheduler runs every goroutine that can run: the loop and each
\* processing goroutine
WatcherFairSpec ==
  /\ Init
  /\ [][WatcherFairNext]_vars
  /\ WF_vars(HandleEvent)
  /\ WF_vars(HandleWatcherError)
  /\ \A w \in Worker : WF_vars(ProcessStep(w))

\* a producer creates a file that does not parse under the name f2, again
\* and again once the file before it is gone from the input directory
FailingContents == {NoTopicContent, NoBodyContent}
CreateFailingFile(c) ==
  /\ nevents < MaxSameName
  /\ inputDir["f2"] = NoFile
  /\ inputDir' = [inputDir EXCEPT !["f2"] = c]
  /\ events' = Append(events, [Name |-> "f2", Op |-> "CREATE"])
  /\ nevents' = nevents + 1
  /\ UNCHANGED <<svars, errorDir, werrs, procs, lines, parsed, metadata>>

\* the watcher on failing files of one name
RelocationNext ==
  \/ \E c \in FailingContents : CreateFailingFile(c)
  \/ HandleEvent
  \/ \E w \in Worker : ReadAttempt(w)
  \/ \E w \in Worker : ParseContent(w)
  \/ \E w \in Worker : StatErrorPath(w)
  \/ \E w \in Worker : Rename(w)

RelocationSpec == Init /\ [][RelocationNext]_vars

\* =================================================================== claims
MarkMethods == {"MarkNotificationSent", "MarkNotificationError"}
Terminal == {NotificationStatusSent, NotificationStatusError}

\* C1: under every interleaving of MarkNotificationSent and
\* MarkNotificationError calls (and of the inserts that create the rows), no
\* notification row disappears and the status of a notification changes only
\* from INPUT to SENT or from INPUT to ERROR; a SENT or ERROR notification
\* keeps its status in every later step, so a status changes at most once.
C1_StatusChangesOnlyFromInput ==
  [][\A n \in db.notifications :
       \E m \in db'.notifications :
         /\ m.notification_id = n.notification_id
         /\ m.status # n.status =>
              /\ n.status = NotificationStatusInput
              /\ m.status \in Terminal]_vars

\* C1 witness: MarkNotificationError has returned nil for a notification that
\* is SENT.
C1_Witness ==
  \E p \in Proc :
    /\ pc[p] = "done"
    /\ op[p] = "MarkNotificationError"
    /\ ret[p].err = NoErr
    /\ \E n \in db.notifications :
         /\ n.notification_id = args[p].notificationID
         /\ n.status = NotificationStatusSent

\* the notification id is absent from the store, or its row is SENT or ERROR
NothingToMark(id) ==
  \A n \in db.notifications : n.notification_id = id => n.status \in Terminal

EachCalledOnce(method) ==
  /\ ncalls = NProcs
  /\ \A p \in Proc : pc[p] = "done" /\ op[p] = method

\* C3: N concurrent GetOrCreateTopic calls with the same valid name, not yet
\* in the store, leave exactly one topic row with that name, and all N calls
\* return without error and return the same topic id.
C3_ConcurrentTopicCreation ==
  ( /\ ~closed
    /\ EachCalledOnce("GetOrCreateTopic")
    /\ \A p \in Proc : args[p].topicName = "t1" )
  => ( /\ Cardinality(topicRows(db, "t1")) = 1
       /\ \A p \in Proc : ret[p].err = NoErr
       /\ \A p, q \in Proc : ret[p].val = ret[q].val )

\* C4: no two topic rows have the same topic_name, in the empty store and
\* after every step, and every step keeps every topic row as it is (same id,
\* name and description): rows are only added.
C4_TopicsUniqueAndStable ==
  /\ db.topics = {}
  /\ [][ /\ \A t \in db.topics : t \in db'.topics
         /\ \A t, u \in db'.topics :
              t.topic_name = u.topic_name => t = u ]_vars

\* C4 witness: two topic rows exist while a further GetOrCreateTopic call for
\* one of their names has returned.
C4_Witness ==
  /\ Cardinality(db.topics) = 2
  /\ \E p \in Proc :
       /\ pc[p] = "done"
       /\ op[p] = "GetOrCreateTopic"
       /\ ret[p].err = NoErr
       /\ \E t \in db.topics :
            t.topic_name = args[p].topicName /\ t.topic_id # db.seqTopics

\* C5: InsertNotification is atomic: a step of an InsertNotification call
\* that makes a new topic row visible in the store makes the notification row
\* of that call visible in the same step, so that the topic of a call whose
\* notification insert has not committed is never in the store.
C5_InsertNotificationAtomic ==
  [][\A p \in Proc :
       ( /\ op[p] = "InsertNotification"
         /\ pc'[p] # pc[p]
         /\ db'.topics # db.topics )
       => db'.notifications # db.notifications]_vars

\* C6: the steps of an InsertNotification call of a valid record remove and
\* change no row; they add at most one topic row, named record.Topic, and
\* only when no row had that name; the step in which the call returns
\* without error adds exactly one notification row, with status INPUT, the
\* record's message and the topic_id of the topic row named record.Topic,
\* and returns that row's notification_id; no other step of the call adds a
\* notification row.
C6_InsertNotificationEffect ==
  [][\A p \in Proc :
       (op[p] = "InsertNotification" /\ pc'[p] # pc[p]) =>
         LET name == args[p].notif.Topic
             newT == db'.topics \ db.topics
             newN == db'.notifications \ db.notifications
         IN  /\ db.topics \subseteq db'.topics
             /\ db.notifications \subseteq db'.notifications
             /\ newT # {} =>
                  /\ Cardinality(newT) = 1
                  /\ \A t \in newT : t.topic_name = name
                  /\ \A t \in db.topics : t.topic_name # name
             /\ IF pc'[p] = "done" /\ ret'[p].err = NoErr
                  THEN /\ newT = {}
                       /\ Cardinality(newN) = 1
                       /\ \A n \in newN :
                            /\ n.status = "INPUT"
                            /\ n.message = args[p].notif.Message
                            /\ n.notification_id = ret'[p].val
                            /\ \E t \in db'.topics :
                                 /\ t.topic_name = name
                                 /\ t.topic_id = n.topic_id
                  ELSE newN = {} ]_vars

\* C6 witness: an InsertNotification call has returned the id of a row of the
\* store, and a second notification row exists for the same topic.
C6_Witness ==
  \E p \in Proc :
    /\ pc[p] = "done"
    /\ op[p] = "InsertNotification"
    /\ ret[p].err = NoErr
    /\ Cardinality(db.topics) = 1
    /\ Cardinality(db.notifications) = 2
    /\ \E n \in db.notifications : n.notification_id = ret[p].val

\* C7: N concurrent InsertNotification calls of valid records naming the same
\* topic, not yet in the store: all N calls return without error, N
\* notification rows in status INPUT exist, exactly one topic row has that
\* name, and all N notification rows reference it.
C7_ConcurrentNotificationInsertion ==
  ( /\ ~closed
    /\ EachCalledOnce("InsertNotification") )
  => ( /\ \A p \in Proc : ret[p].err = NoErr
       /\ Cardinality(db.notifications) = NProcs
       /\ Cardinality(topicRows(db, "t1")) = 1
       /\ \A n \in db.notifications :
            /\ n.status = "INPUT"
            /\ \E t \in topicRows(db, "t1") : n.topic_id = t.topic_id )

\* C8: the steps of a GetOrCreateTopic call whose name is in the store change
\* no row of the store (the stored description stays, whatever description
\* is passed), and the call returns the topic_id of the row with that name;
\* the call that creates the row returns the topic_id of the row it created;
\* by C4 the row never changes, so every later call returns the id the first
\* creation returned.
C8_GetExistingTopic ==
  [][\A p \in Proc :
       (op[p] = "GetOrCreateTopic" /\ pc'[p] # pc[p]) =>
         LET name == args[p].topicName IN
         /\ (\E t \in db.topics : t.topic_name = name) =>
              /\ db' = db
              /\ pc[p] \in {"selectTopic", "foundTopic"}
                   => pc'[p] \in {"foundTopic", "done"}
              /\ (pc[p] = "foundTopic" /\ pc'[p] = "done") =>
                   /\ ret'[p].err = NoErr
                   /\ \E t \in db.topics :
                        t.topic_name = name /\ t.topic_id = ret'[p].val
         /\ db'.topics # db.topics =>
              /\ ret'[p].err = NoErr
              /\ \E t \in db'.topics \ db.topics :
                   t.topic_name = name /\ t.topic_id = ret'[p].val ]_vars

\* C8 witness: GetOrCreateTopic has returned the id of an existing topic
\* whose stored description is not the one passed.
C8_Witness ==
  \E p \in Proc :
    /\ pc[p] = "done"
    /\ op[p] = "GetOrCreateTopic"
    /\ ret[p].err = NoErr
    /\ \E t \in db.topics :
         /\ t.topic_name = args[p].topicName
         /\ t.topic_id = ret[p].val
         /\ t.description # args[p].description
\* C9: validation runs before any write.  The first step of a
\* GetOrCreateTopic or InsertNotification call returns EmptyTopic for an
\* empty topic name and TopicTooLong for a name of 256 bytes or more, and
\* goes on to the database for a name of 1 to 255 bytes; InsertNotification
\* returns EmptyMessage for an empty message when the topic is valid and the
\* topic's error when both are invalid; every rejected call ends in that
\* step with the store, the writer's view and the locks unchanged.
C9_ValidationBeforeWrite ==
  [][\A p \in Proc :
       (pc[p] = "idle" /\ pc'[p] # "idle") =>
         LET a == args'[p]
             rejected(e) ==
               /\ pc'[p] = "done"
               /\ ret'[p] = [err |-> e, val |-> 0]
               /\ db' = db /\ wdb' = wdb /\ lock' = lock
             accepted == pc'[p] = "selectTopic" /\ db' = db
         IN  /\ op'[p] = "GetOrCreateTopic" =>
                  /\ a.topicName = "" => rejected("ErrEmptyTopic")
                  /\ len(a.topicName) >= 256 => rejected("ErrTopicTooLong")
                  /\ len(a.topicName) \in 1..255 => accepted
             /\ op'[p] = "InsertNotification" =>
                  /\ a.notif.Topic = "" => rejected("ErrEmptyTopic")
                  /\ len(a.notif.Topic) >= 256 => rejected("ErrTopicTooLong")
                  /\ (len(a.notif.Topic) \in 1..255 /\ a.notif.Message = "")
                       => rejected("ErrEmptyMessage")
                  /\ (len(a.notif.Topic) \in 1..255 /\ a.notif.Message # "")
                       => accepted ]_vars

\* C9 witness: a topic named with 255 bytes is in the store, and an
\* InsertNotification call with an empty topic and an empty message has
\* returned EmptyTopic.
C9_Witness ==
  /\ \E t \in db.topics : len(t.topic_name) = 255
  /\ \E p \in Proc :
       /\ pc[p] = "done"
       /\ op[p] = "InsertNotification"
       /\ args[p].notif.Topic = ""
       /\ args[p].notif.Message = ""
       /\ ret[p].err = ErrEmptyTopic

ArgError(method, a) ==
  IF method = "InsertDevice" THEN validateDevice(a.deviceID, a.publicKey)
  ELSE IF method = "GetOrCreateTopic" THEN validateTopic(a.topicName)
  ELSE IF method = "InsertNotification" THEN validateNotification(a.notif)
  ELSE NoErr

\* C11 (as amended): a store operation called after Close fails and changes
\* no stored row and takes no lock; it never succeeds.  With valid arguments
\* the error is the closed-store error of BeginTx; with invalid arguments
\* it is the validation error, which is returned before BeginTx is reached.
C11_FailsAfterClose ==
  [][\A p \in Proc :
       (closed /\ pc[p] = "idle" /\ pc'[p] # "idle")
         => ( /\ pc'[p] = "done"
              /\ ret'[p].val = 0
              /\ ret'[p].err # NoErr
              /\ ret'[p].err =
                   IF ArgError(op'[p], args'[p]) # NoErr
                     THEN ArgError(op'[p], args'[p])
                     ELSE ErrClosed
              /\ db' = db
              /\ wdb' = wdb
              /\ lock' = lock )]_vars

\* C11 as stated: every store operation called after Close, with valid or
\* invalid arguments, fails with the closed-store error and changes no row.
C11_ClosedErrorForAllArguments ==
  [][\A p \in Proc :
       (closed /\ pc[p] = "idle" /\ pc'[p] # "idle")
         => ( /\ pc'[p] = "done"
              /\ ret'[p].err = ErrClosed
              /\ db' = db
              /\ wdb' = wdb )]_vars

\* a Mark call on an existing INPUT notification was refused by the closed
\* store
C11_Witness ==
  /\ closed
  /\ \E p \in Proc :
       /\ pc[p] = "done"
       /\ op[p] \in MarkMethods
       /\ ret[p].err = ErrClosed
       /\ \E n \in db.notifications :
            /\ n.notification_id = args[p].notificationID
            /\ n.status = NotificationStatusInput

\* the kinds of line of a well-formed file
IsSeparator(line) == HasPrefix(line, <<"-", "-", "-">>)
IsCommentLine(line) == HasPrefix(line, <<"-", "-">>) /\ ~IsSeparator(line)
IsBlankLine(line) == \A i \in 1..Len(line) : line[i] = " "
KeyOf(line) == TrimSpace(SubSeq(line, 1, Index(line, ":") - 1))
ValueOf(line) == TrimSpace(SubSeq(line, Index(line, ":") + 1, Len(line)))
IsKeyValueLine(line) ==
  /\ ~HasPrefix(line, <<"-", "-">>)
  /\ Index(line, ":") > 0
  /\ KeyOf(line) # <<>>
  /\ ValueOf(line) # <<>>
IsTopicLine(line) == ~IsBlankLine(line) /\ ~HasPrefix(line, <<"-", "-">>)

\* the position of the one separator line of ls, 0 when there is not exactly
\* one
SeparatorAt(ls) ==
  IF Cardinality({i \in 1..Len(ls) : IsSeparator(ls[i])}) = 1
    THEN CHOOSE i \in 1..Len(ls) : IsSeparator(ls[i])
    ELSE 0

\* topic line, key/value lines mixed with blank and comment lines, one
\* separator, one or more body lines
WellFormed(ls) ==
  /\ SeparatorAt(ls) >= 2
  /\ SeparatorAt(ls) < Len(ls)
  /\ IsTopicLine(ls[1])
  /\ \A i \in 2..(SeparatorAt(ls) - 1) :
       IsKeyValueLine(ls[i]) \/ IsBlankLine(ls[i]) \/ IsCommentLine(ls[i])

\* the mapping the key/value lines of the header stand for: each key with
\* the value of its last line
HeaderMapping(ls) ==
  LET kv == {i \in 2..(SeparatorAt(ls) - 1) : IsKeyValueLine(ls[i])}
      last(k) == CHOOSE i \in kv :
                   KeyOf(ls[i]) = k /\ \A j \in kv : KeyOf(ls[j]) = k => j <= i
  IN [k \in {KeyOf(ls[i]) : i \in kv} |-> ValueOf(ls[last(k)])]

\* C12: for every well-formed line sequence parse succeeds and returns the
\* topic line as Topic, exactly the mapping of the key/value lines as
\* Metadata (nothing from a comment or a blank line), and the body lines
\* joined with newlines as Message.
C12_ParseWellFormed ==
  (parsed # NotCalled /\ WellFormed(lines))
    => parsed =
         [Notif |-> [Topic |-> lines[1],
                     Metadata |-> HeaderMapping(lines),
                     Message |->
                       Join(SubSeq(lines, SeparatorAt(lines) + 1, Len(lines)))],
          err |-> NoErr]

\* parse has returned for a well-formed file whose header holds a comment
\* that looks like a key/value pair
C12_Witness ==
  /\ parsed # NotCalled
  /\ WellFormed(lines)
  /\ \E i \in 1..Len(lines) : lines[i] = CommentLine
  /\ parsed.err = NoErr
  /\ parsed.Notif.Metadata = EmptyMap

\* the position of the first separator line of ls, Len(ls) + 1 when there is
\* none
FirstSeparator(ls) ==
  IF \E i \in 1..Len(ls) : IsSeparator(ls[i])
    THEN CHOOSE i \in 1..Len(ls) :
           IsSeparator(ls[i]) /\ \A j \in 1..(i - 1) : ~IsSeparator(ls[j])
    ELSE Len(ls) + 1
\* the header lines that remain after dropping the blank ("") and the
\* comment lines
RemainingHeader(ls) ==
  {i \in 1..(FirstSeparator(ls) - 1) : ls[i] # <<>> /\ ~IsCommentLine(ls[i])}
\* the body: the lines after the separator (a further separator line is no
\* body line)
BodyLines(ls) ==
  {i \in (FirstSeparator(ls) + 1)..Len(ls) : ~IsSeparator(ls[i])}

IsPair(line) ==
  Index(line, ":") > 0 /\ KeyOf(line) # <<>> /\ ValueOf(line) # <<>>
\* each key with the value of its last pair
PairMapping(ls) ==
  LET kv == {i \in 1..Len(ls) : IsPair(ls[i])}
      last(k) == CHOOSE i \in kv :
                   KeyOf(ls[i]) = k /\ \A j \in kv : KeyOf(ls[j]) = k => j <= i
  IN [k \in {KeyOf(ls[i]) : i \in kv} |-> ValueOf(ls[last(k)])]

\* C15: for every sequence of header lines parseMetadata splits each line at
\* its first colon, skips the line unless both sides are non-empty after
\* trimming, and otherwise maps the trimmed key to the trimmed value, the
\* last occurrence of a key winning; the mapping never contains an empty key
\* or an empty value.
C15_ParseMetadataTrimmedPairs ==
  metadata # NotCalled
    => /\ metadata.result = PairMapping(lines)
       /\ \A k \in DOMAIN metadata.result :
            k # <<>> /\ metadata.result[k] # <<>>

\* C14: every Notification that ReadFile produces has a non-empty Message: a
\* file whose content after the separator is empty, also one that ends with
\* a newline right after the separator line, fails with EmptyMessage.
C14_MessageNeverEmpty ==
  \A w \in Worker :
    /\ procs[w].pc = "parsed" => procs[w].Notif.Message # <<>>
    /\ ( /\ procs[w].pc \in {"parsed", "errorFile"}
         /\ procs[w].content = TrailingNewlineContent )
         => procs[w].err = EmptyMessageError

\* the goroutine w ends in this step
Ends(w) == procs[w].pc # "free" /\ procs'[w].pc = "free"

\* C16: every exchange file is consumed exactly once: when the processing
\* unit of a created file finishes, the file is no longer in the input
\* directory; it has been removed if reading and parsing succeeded and
\* relocated to the error directory if they failed, and no file is both
\* parsed into a notification and relocated.
C16_FileConsumedOnce ==
  [][\A w \in Worker :
       Ends(w) =>
         /\ inputDir'[procs[w].Filepath] = NoFile
         /\ IF procs[w].Notif # NilNotification
              THEN errorDir' = errorDir
              ELSE errorDir'[procs[w].errorPath] # NoFile]_vars

\* the string of the store model that stands for a string of the parser
StoreString(str) ==
  IF str = TopicLine THEN "t1" ELSE IF str = TextLine THEN "msg" ELSE "other"

\* C17: for every created file that is read and parsed successfully the
\* watcher hands the Notification to the store: when its processing ends, a
\* notification row with that topic and message exists in status INPUT.
C17_ParsedIsPersisted ==
  [][\A w \in Worker :
       (Ends(w) /\ procs[w].Notif # NilNotification) =>
         \E n \in db'.notifications :
           /\ n.status = NotificationStatusInput
           /\ n.message = StoreString(procs[w].Notif.Message)
           /\ \E t \in db'.topics :
                /\ t.topic_id = n.topic_id
                /\ t.topic_name = StoreString(procs[w].Notif.Topic)]_vars

\* C18: whenever ReadFile fails (retries exhausted, NoTopic, EmptyMessage)
\* the watcher attempts to move the file into the error directory: under its
\* base name when no entry of that name exists there, under the base name
\* with "_" and a timestamp when one does; a failed move is only logged and
\* the processing unit ends normally.
C18_FailedFileRelocated ==
  [][\A w \in Worker :
       /\ (procs[w].pc = "parse" /\ procs'[w].pc # "parse")
            => /\ procs'[w].pc = IF procs'[w].err # NoErr THEN "errorFile"
                                 ELSE "parsed"
               /\ procs'[w].err \in {NoErr, ErrReadFile, ErrEmptyAfterRetries,
                                      NoTopicError, EmptyMessageError}
       /\ (procs[w].pc = "errorFile" /\ procs'[w].pc # "errorFile")
            => /\ procs'[w].pc = "rename"
               /\ IF errorDir[<<procs[w].Filepath, 0>>] # NoFile
                    THEN \E ts \in Timestamps :
                           procs'[w].errorPath = <<procs[w].Filepath, ts>>
                    ELSE procs'[w].errorPath = <<procs[w].Filepath, 0>>
       /\ (procs[w].pc = "rename" /\ procs'[w].pc # "rename")
            => /\ procs'[w] = FreeProcess
               /\ \/ /\ inputDir' = [inputDir EXCEPT
                                        ![procs[w].Filepath] = NoFile]
                     /\ errorDir'[procs[w].errorPath] =
                          inputDir[procs[w].Filepath]
                     /\ \A path \in ErrorPaths \ {procs[w].errorPath} :
                          errorDir'[path] = errorDir[path]
                  \/ UNCHANGED <<inputDir, errorDir>>]_vars

\* two failed files of the same name are in the error directory, the second
\* under the name with the timestamp
C18_Witness ==
  \E f \in FileNames, ts \in Timestamps :
    errorDir[<<f, 0>>] # NoFile /\ errorDir[<<f, ts>>] # NoFile

\* C19: ReadFile ends after at most 5 read attempts: an attempt that returns
\* an error or zero bytes is followed by another one while fewer than 5 have
\* been made; the first attempt that returns a non-empty content ends the
\* retrying and that content is parsed; if none of the 5 does, ReadFile
\* returns a terminal read error and the file is never parsed.
C19_AtMostFiveAttempts ==
  [][\A w \in Worker :
       /\ procs'[w].attempt <= 5
       /\ procs'[w].pc = "read" => procs'[w].attempt < 5
       /\ (procs[w].pc = "read" /\ procs'[w] # procs[w])
            => LET bad == procs'[w].err # NoErr \/ procs'[w].content = <<>>
               IN /\ procs'[w].attempt = procs[w].attempt + 1
                  /\ procs'[w].pc = IF bad /\ procs'[w].attempt < 5
                                      THEN "read" ELSE "parse"
                  /\ ~bad => procs'[w].content = inputDir[procs[w].Filepath]
       /\ (procs[w].pc = "parse" /\ procs'[w].pc # "parse")
            => IF procs[w].err = NoErr /\ procs[w].content # <<>>
                 THEN /\ procs'[w].err = parse(Split(procs[w].content)).err
                      /\ procs'[w].Notif = parse(Split(procs[w].content)).Notif
                 ELSE /\ procs[w].attempt = 5
                      /\ procs'[w].err \in {ErrReadFile, ErrEmptyAfterRetries}
                      /\ procs'[w].Notif = NilNotification
                      /\ procs'[w].pc = "errorFile"]_vars

\* a file was parsed from the content of the fifth attempt, and another one
\* failed after five attempts
C19_Witness ==
  \E w, v \in Worker :
    /\ procs[w].attempt = 5
    /\ procs[w].pc = "parsed"
    /\ procs[v].attempt = 5
    /\ procs[v].pc = "errorFile"
    /\ procs[v].err = ErrEmptyAfterRetries

\* the Create event of f is waiting on watcher.Events
CreatePending(f) ==
  \E i \in 1..Len(events) : events[i] = [Name |-> f, Op |-> "CREATE"]

\* C20: the watcher loop never stops because of a file: whatever the other
\* goroutines are doing (reading, retrying, failing, relocating) and
\* whatever watcher errors arrive, the loop can receive the next event at
\* once; every Create event is picked up by a goroutine of its own, and
\* every such goroutine comes to its end.
C20_LoopNeverStops ==
  /\ [](events # <<>> => ENABLED HandleEvent)
  /\ [](werrs > 0 => ENABLED HandleWatcherError)
  /\ \A f \in FileNames :
       CreatePending(f) ~> (\E w \in Worker : procs[w].pc = "read"
                                               /\ procs[w].Filepath = f)
  /\ \A w \in Worker : (procs[w].pc # "free") ~> (procs[w].pc = "free")

\* after a file that failed and could not be relocated, and while another
\* file is still being retried, a further Create event has been picked up
C20_Witness ==
  /\ nevents = MaxEvents
  /\ events = <<>>
  /\ \E f \in FileNames :
       /\ inputDir[f] \in {NoTopicContent, NoBodyContent}
       /\ \A w \in Worker : procs[w].Filepath # f
  /\ \E w \in Worker : procs[w].pc = "read" /\ procs[w].attempt >= 1

\* C23: parse splits at the first separator line: the Message of every
\* Notification it returns is the newline-join of all the lines that follow
\* the first separator, later lines beginning with --- included.
C23_MessageIsAllAfterFirstSeparator ==
  (parsed # NotCalled /\ parsed.err = NoErr)
    => parsed.Notif.Message =
         Join(SubSeq(lines, FirstSeparator(lines) + 1, Len(lines)))

\* the header lines that can be a topic: before the first separator, not
\* empty and not beginning with two dashes
TopicCandidates(ls) ==
  {i \in 1..(FirstSeparator(ls) - 1) :
     ls[i] # <<>> /\ ~HasPrefix(ls[i], <<"-", "-">>)}
\* the position of the first of them
TopicAt(ls) ==
  CHOOSE i \in TopicCandidates(ls) : \A j \in TopicCandidates(ls) : i <= j

\* C24: the Topic of every Notification returned by parse is the first line
\* before the separator that is neither empty nor begins with two dashes; it
\* is never the empty string, never a comment and never a separator line,
\* and the empty and comment lines in front of the topic line do not change
\* the result: parse returns the same for the file without them.
C24_TopicIsFirstCleanHeaderLine ==
  (parsed # NotCalled /\ parsed.err = NoErr)
    => /\ TopicCandidates(lines) # {}
       /\ parsed.Notif.Topic = lines[TopicAt(lines)]
       /\ parsed.Notif.Topic # <<>>
       /\ ~IsCommentLine(parsed.Notif.Topic)
       /\ ~IsSeparator(parsed.Notif.Topic)
       /\ parsed = parse(SubSeq(lines, TopicAt(lines), Len(lines)))

\* parse has returned a Notification for a file whose topic line comes after
\* a comment line
C24_Witness ==
  /\ parsed # NotCalled
  /\ parsed.err = NoErr
  /\ Len(lines) >= 2
  /\ lines[1] = CommentLine
  /\ parsed.Notif.Topic = lines[2]

\* C25: under every interleaving of the goroutines no Process that is in use
\* is handed to another goroutine (its Filepath stays as it is until it goes
\* back to the pool), every Process goes back to the pool with Filepath ""
\* and Notif nil, and what ReadFile leaves in the Process (the notification,
\* or nil and the error that sends the file to errorFile) is what the read
\* of this file gives, whatever the Process held before.
C25_PoolCarriesNoState ==
  [][\A w \in Worker :
       /\ (procs[w].pc # "free" /\ procs'[w].pc # "free")
            => procs'[w].Filepath = procs[w].Filepath
       /\ procs'[w].pc = "free"
            => procs'[w].Filepath = "" /\ procs'[w].Notif = NilNotification
       /\ (procs[w].pc = "parse" /\ procs'[w].pc # "parse")
            => LET r == readFileResult(procs[w].err, procs[w].content)
               IN /\ procs'[w].Notif = r.Notif
                  /\ procs'[w].err = r.err
                  /\ procs'[w].Filepath = procs[w].Filepath]_vars

\* the Process 1 is in its second use: only f1 was ever created, its first
\* file could not be read and was relocated by the goroutine that had the
\* Process 1, and the same Process now holds the notification parsed from
\* the second file f1
C25_Witness ==
  /\ errorDir[<<"f1", 0>>] # NoFile
  /\ inputDir["f2"] = NoFile
  /\ \A ts \in 0..MaxTime : errorDir[<<"f2", ts>>] = NoFile
  /\ procs[1].pc = "parsed"
  /\ procs[1].Filepath = "f1"
  /\ procs[1].Notif # NilNotification

\* C26: only the input directory is watched: a processing unit starts only
\* for a Create event and works on the file that event names; relocating a
\* file puts no Create event into the queue, so no unit ever starts for a
\* relocated file; no two units work on the same file and a unit makes at
\* most 5 read attempts; the file a unit relocates leaves the input
\* directory, where alone a relocation can take it from.
C26_RelocationStartsNoUnit ==
  [][/\ \A w \in Worker :
          (procs[w].pc = "free" /\ procs'[w].pc # "free")
            => /\ events # <<>>
               /\ Head(events).Op = "CREATE"
               /\ procs'[w].Filepath = Head(events).Name
               /\ inputDir[procs'[w].Filepath] # NoFile
     /\ \A w \in Worker :
          (procs[w].pc = "rename" /\ procs'[w].pc # "rename")
            => /\ \A i \in 1..Len(events') :
                    events'[i].Op = "CREATE"
                      => i <= Len(events) /\ events[i] = events'[i]
               /\ errorDir' # errorDir
                    => inputDir'[procs[w].Filepath] = NoFile
     /\ \A w, v \in Worker :
          (w # v /\ procs'[w].pc # "free" /\ procs'[v].pc # "free")
            => procs'[w].Filepath # procs'[v].Filepath
     /\ \A w \in Worker : procs'[w].attempt <= READ_FILE_MAX_ATTEMPTS]_vars

\* a file has been relocated and the loop has dropped the event of its
\* leaving the input directory: the queue is empty and no unit runs
C26_Witness ==
  \E f \in FileNames :
    /\ errorDir[<<f, 0>>] # NoFile
    /\ inputDir[f] = NoFile
    /\ events = <<>>
    /\ \A w \in Worker : procs[w].pc = "free"

\* C30: relocating a failed file never destroys an earlier failed file: at
\* each os.Rename of errorFile every file already in the error directory is
\* still there with its content unchanged, and the relocated file is stored
\* under a path that held no file.
C30_RelocationKeepsEarlierFiles ==
  [][\A w \in Worker :
       (procs[w].pc = "rename" /\ procs'[w].pc # "rename")
         => /\ \A path \in ErrorPaths :
                 errorDir[path] # NoFile => errorDir'[path] = errorDir[path]
            /\ inputDir'[procs[w].Filepath] # inputDir[procs[w].Filepath]
                 => errorDir[procs[w].errorPath] = NoFile]_vars

\* C27: server-assigned ids are positive, unique and monotonic: the id of
\* every committed topic creation and of every committed notification
\* insert is greater than 0 and greater than every id of its kind committed
\* before, it is the id the call returns, it belongs to exactly one row, and
\* no committed row ever loses or changes its id, also after inserts that
\* failed or were rolled back.
C27_IdsPositiveUniqueMonotonic ==
  [][/\ \A p \in Proc :
          (pc[p] = "commitTopic" /\ db' # db)
            => /\ lastID[p] > 0
               /\ \A t \in db.topics : lastID[p] > t.topic_id
               /\ Cardinality({t \in db'.topics : t.topic_id = lastID[p]}) = 1
               /\ op[p] = "GetOrCreateTopic"
                    => ret'[p] = [err |-> NoErr, val |-> lastID[p]]
     /\ \A p \in Proc :
          (pc[p] = "commitNotification" /\ db' # db)
            => /\ lastID[p] > 0
               /\ \A n \in db.notifications : lastID[p] > n.notification_id
               /\ Cardinality({n \in db'.notifications :
                                 n.notification_id = lastID[p]}) = 1
               /\ ret'[p] = [err |-> NoErr, val |-> lastID[p]]
     /\ \A t, u \in db'.topics : t.topic_id = u.topic_id => t = u
     /\ \A n, m \in db'.notifications :
          n.notification_id = m.notification_id => n = m
     /\ db.topics \subseteq db'.topics
     /\ db.notifications \subseteq db'.notifications]_vars

\* a topic creation was rolled back after its INSERT (the commit found the
\* database locked), and the id it had taken now belongs to a topic that a
\* later call created
C27_Witness ==
  \E p \in Proc :
    /\ op[p] = "GetOrCreateTopic"
    /\ pc[p] = "done"
    /\ ret[p].err = ErrBusy
    /\ lastID[p] > 0
    /\ \E t \in db.topics : t.topic_id = lastID[p]

\* the caller q runs the other Mark method on the notification of p's call
OtherMark(p, q) ==
  /\ q # p
  /\ op[p] \in MarkMethods
  /\ op[q] \in MarkMethods \ {op[p]}
  /\ args[q] = args[p]
  /\ pc[q] # "idle"

\* C28: when MarkNotificationSent(id) and MarkNotificationError(id) run
\* concurrently on the same notification of an open store, under every
\* interleaving of their steps both calls return without error, once both
\* have returned the notification has left INPUT (one of the two updates
\* took effect), and its status never goes from SENT to ERROR or from ERROR
\* to SENT.
C28_ConcurrentMarksBothSucceed ==
  [][\A p, q \in Proc :
       ( /\ OtherMark(p, q)
         /\ ~closed
         /\ \E n \in db.notifications :
              n.notification_id = args[p].notificationID
         /\ pc[p] # "done"
         /\ pc'[p] = "done" )
         => /\ ret'[p].err = NoErr
            /\ pc[q] = "done"
                 => \A n \in db'.notifications :
                      n.notification_id = args[p].notificationID
                        => n.status \in Terminal
            /\ \A n \in db.notifications, m \in db'.notifications :
                 (n.notification_id = m.notification_id
                    /\ n.status \in Terminal)
                   => m.status = n.status]_vars

\* C29: referential integrity: in every reachable state of the store, in
\* what is committed and in what a writing transaction has changed so far,
\* the topic_id of every notification row is the id of a topic row, and the
\* status of every notification row is INPUT, SENT or ERROR.
C29_ReferentialIntegrity ==
  \A d \in {db, wdb} :
    \A n \in d.notifications :
      /\ \E t \in d.topics : t.topic_id = n.topic_id
      /\ n.status \in {NotificationStatusInput, NotificationStatusSent,
                       NotificationStatusError}

\* an insert is partially executed (its row is written and not committed)
\* after another call failed, and the store holds a notification already
C29_Witness ==
  \E p, q \in Proc :
    /\ pc[p] = "commitNotification"
    /\ wdb # db
    /\ pc[q] = "done"
    /\ ret[q].err = ErrBusy
    /\ db.notifications # {}

=============================================================================
